---- MODULE Spec2Model ----
(***************************************************************************)
(* Model of expense_tracker.py: the SQLite-backed expense table and the    *)
(* five core operations add_expense, list_expenses, update_expense,        *)
(* delete_expense and summarize.                                           *)
(*                                                                         *)
(* Encoding.  An optional Python argument is a sequence of length at most  *)
(* one: <<>> is None, <<v>> is the value v.  Amounts are fixed-point       *)
(* numbers in thousandths (1005 is 1.005), so ROUND(x, 2) is rounding to   *)
(* a multiple of 10.  A date YYYY-MM-DD is the integer YYYYMMDD: SQLite    *)
(* compares the fixed-width digit strings bytewise, which is the order of  *)
(* these integers, and substr(date, 1, 7) is the integer YYYYMM.           *)
(***************************************************************************)
EXTENDS Integers, Sequences, FiniteSets, TLC

VARIABLES rows, seq, assigned, last

vars == <<rows, seq, assigned, last>>

\* ---------------------------------------------------------------- bounds
MaxAdds == 2
MaxLimit == 1

\* ---------------------------------------------------------------- inputs
None == <<>>
Some(v) == <<v>>
Opt(S) == {None} \cup {Some(v) : v \in S}

\* values the operations are called with
Amounts == {-1000, 0, 1005}
Dates == {20250120, 20250203}
AddCategories == Opt({"food", "uncategorized"})
AddNotes == Opt({"lunch"})
UpdAmounts == Opt(Amounts)
UpdDates == Opt({20250203})
UpdCategories == Opt({""})
UpdNotes == Opt({""})
Starts == Opt({20250203})
Ends == Opt({20250120})
FilterCategories == Opt({"", "food"})
Limits == Opt({0, MaxLimit})
Bys == Opt({"category", "month"})
Ids == 1..MaxAdds

\* ------------------------------------------------------- python helpers
\* `if x:` on an optional string / an optional number
TruthyStr(o) == o # None /\ o[1] # ""
TruthyNum(o) == o # None /\ o[1] # 0
\* `x or ""`
OrEmpty(o) == IF TruthyStr(o) THEN o[1] ELSE ""

\* ------------------------------------------------------------- storage
\* variant: a schema without the CHECK constraint
CheckAmount_unchecked(amount) == TRUE

\* CHECK(amount >= 0)
CheckAmount(amount) == amount >= 0

RowIds(R) == {r.id : r \in R}

MaxOf(S) == CHOOSE m \in S : \A x \in S : x <= m

\* variant: a plain INTEGER PRIMARY KEY, which forgets deleted rowids
NextRowid_plain(R, s) == MaxOf(RowIds(R) \cup {0}) + 1

\* id INTEGER PRIMARY KEY AUTOINCREMENT: one more than the largest rowid
\* ever used, which the sqlite_sequence table remembers across deletes
NextRowid(R, s) == MaxOf(RowIds(R) \cup {s}) + 1

\* variant: category and note bound in the wrong order
NewRow_swapped(id, amount, date, category, note) ==
    [id |-> id, amount |-> amount, date |-> date,
     category |-> OrEmpty(note), note |-> OrEmpty(category)]

\* the tuple bound to INSERT ... VALUES(?,?,?,?)
NewRow(id, amount, date, category, note) ==
    [id |-> id, amount |-> amount, date |-> date,
     category |-> OrEmpty(category), note |-> OrEmpty(note)]

RECURSIVE SumAmount(_)
SumAmount(R) ==
    IF R = {} THEN 0
    ELSE LET r == CHOOSE x \in R : TRUE IN r.amount + SumAmount(R \ {r})

\* variant: truncation instead of rounding
Round2_trunc(x) == (x \div 10) * 10

\* ROUND(x, 2): to the nearest hundredth, halves away from zero
Round2(x) ==
    IF x >= 0 THEN ((x + 5) \div 10) * 10 ELSE -((((-x) + 5) \div 10) * 10)

\* ------------------------------------------------------- list_expenses
ListWhere(r, start, end, category) ==
    /\ TruthyNum(start) => r.date >= start[1]
    /\ TruthyNum(end) => r.date <= end[1]
    /\ TruthyStr(category) => r.category = category[1]

\* variant: ORDER BY date DESC, id ASC
Before_idasc(a, b) == a.date > b.date \/ (a.date = b.date /\ a.id < b.id)

\* ORDER BY date DESC, id DESC
Before(a, b) == a.date > b.date \/ (a.date = b.date /\ a.id > b.id)

RECURSIVE OrderByDateId(_)
OrderByDateId(R) ==
    IF R = {} THEN <<>>
    ELSE LET f == CHOOSE a \in R : \A b \in R \ {a} : Before(a, b)
         IN <<f>> \o OrderByDateId(R \ {f})

\* LIMIT n: a negative n is no limit in SQLite
LimitTo(s, n) ==
    IF n < 0 \/ n >= Len(s) THEN s ELSE SubSeq(s, 1, n)

list_expenses(R, start, end, category, limit) ==
    LET sel == OrderByDateId({r \in R : ListWhere(r, start, end, category)})
    IN IF TruthyNum(limit) THEN LimitTo(sel, limit[1]) ELSE sel

\* ----------------------------------------------------------- summarize
SumWhere(r, start, end, category) ==
    /\ TruthyNum(start) => r.date >= start[1]
    /\ TruthyNum(end) => r.date <= end[1]
    /\ TruthyStr(category) => r.category = category[1]

\* variant: grouping on the raw category column
CategoryGrp_raw(c) == c

\* COALESCE(NULLIF(category, ''), 'uncategorized')
CategoryGrp(c) == IF c = "" THEN "uncategorized" ELSE c

\* substr(date, 1, 7)
MonthKey(d) == d \div 100

Pair(grp, total) == [grp |-> grp, total |-> total]

CategoryGroups(R) ==
    {Pair(g, Round2(SumAmount({r \in R : CategoryGrp(r.category) = g})))
        : g \in {CategoryGrp(r.category) : r \in R}}

\* ORDER BY total DESC: every order of the groups that is non-increasing
\* in total (the order among equal totals is not fixed by the query)
RECURSIVE OrderByTotal(_)
OrderByTotal(G) ==
    IF G = {} THEN {<<>>}
    ELSE UNION {{<<g>> \o t : t \in OrderByTotal(G \ {g})}
                  : g \in {x \in G : \A y \in G : x.total >= y.total}}

\* GROUP BY grp ORDER BY grp DESC over the month keys
RECURSIVE MonthGroups(_, _)
MonthGroups(R, keys) ==
    IF keys = {} THEN <<>>
    ELSE LET k == MaxOf(keys)
         IN <<Pair(ToString(k),
                   Round2(SumAmount({r \in R : MonthKey(r.date) = k})))>>
            \o MonthGroups(R, keys \ {k})

\* SELECT ROUND(SUM(amount), 2): NULL over no rows; then `total or 0.0`
TotalOr0(R) == IF R = {} THEN 0 ELSE Round2(SumAmount(R))

summarize(R, start, end, by, category) ==
    LET sel == {r \in R : SumWhere(r, start, end, category)}
    IN IF by = Some("category") THEN OrderByTotal(CategoryGroups(sel))
       ELSE IF by = Some("month")
            THEN {MonthGroups(sel, {MonthKey(r.date) : r \in sel})}
            ELSE {<<Pair("total", TotalOr0(sel))>>}

\* ------------------------------------------------------ update_expense
\* the SET list built by the four `is not None` tests
NoSets(amount, date, category, note) ==
    amount = None /\ date = None /\ category = None /\ note = None

\* variant: truthiness tests instead of `is not None`
UpdatedRow_truthy(r, amount, date, category, note) ==
    [id |-> r.id,
     amount |-> IF TruthyNum(amount) THEN amount[1] ELSE r.amount,
     date |-> IF TruthyNum(date) THEN date[1] ELSE r.date,
     category |-> IF TruthyStr(category) THEN category[1] ELSE r.category,
     note |-> IF TruthyStr(note) THEN note[1] ELSE r.note]

UpdatedRow(r, amount, date, category, note) ==
    [id |-> r.id,
     amount |-> IF amount # None THEN amount[1] ELSE r.amount,
     date |-> IF date # None THEN date[1] ELSE r.date,
     category |-> IF category # None THEN category[1] ELSE r.category,
     note |-> IF note # None THEN note[1] ELSE r.note]

\* variant: the rowcount test never sees a miss
RowCount_one(R, id) == 1

\* cur.rowcount of a statement with WHERE id = ?
RowCount(R, id) == Cardinality({r \in R : r.id = id})

\* ------------------------------------------------------------- results
Idle == [op |-> "none", id |-> 0, amount |-> None, date |-> None,
         category |-> None, note |-> None, start |-> None, end |-> None,
         limit |-> None, by |-> None, err |-> "", out |-> <<>>]

Init ==
    /\ rows = {}
    /\ seq = 0
    /\ assigned = {}
    /\ last = Idle

add_expense(amount, date, category, note) ==
    /\ last.op = "none"
    /\ seq < MaxAdds
    /\ LET id == NextRowid(rows, seq)
           call == [Idle EXCEPT !.op = "add", !.amount = Some(amount),
                                !.date = Some(date), !.category = category,
                                !.note = note]
       IN IF CheckAmount(amount)
          THEN /\ rows' = rows \cup {NewRow(id, amount, date, category, note)}
               /\ seq' = id
               /\ assigned' = assigned \cup {id}
               /\ last' = [call EXCEPT !.id = id]
          ELSE /\ last' = [call EXCEPT !.err = "IntegrityError"]
               /\ UNCHANGED <<rows, seq, assigned>>

list_expenses_call(start, end, category, limit) ==
    /\ last.op = "none"
    /\ last' = [Idle EXCEPT !.op = "list", !.start = start, !.end = end,
                            !.category = category, !.limit = limit,
                            !.out = list_expenses(rows, start, end,
                                                  category, limit)]
    /\ UNCHANGED <<rows, seq, assigned>>

update_expense(id, amount, date, category, note) ==
    /\ last.op = "none"
    /\ LET call == [Idle EXCEPT !.op = "update", !.id = id,
                                !.amount = amount, !.date = date,
                                !.category = category, !.note = note]
       IN IF NoSets(amount, date, category, note)
          THEN /\ last' = [call EXCEPT !.err = "No fields provided"]
               /\ UNCHANGED rows
          ELSE IF RowCount(rows, id) = 0
          THEN /\ last' = [call EXCEPT !.err = "not found"]
               /\ UNCHANGED rows
          ELSE IF amount # None /\ ~CheckAmount(amount[1])
          THEN /\ last' = [call EXCEPT !.err = "IntegrityError"]
               /\ UNCHANGED rows
          ELSE /\ rows' = {IF r.id = id
                           THEN UpdatedRow(r, amount, date, category, note)
                           ELSE r : r \in rows}
               /\ last' = call
    /\ UNCHANGED <<seq, assigned>>

delete_expense(id) ==
    /\ last.op = "none"
    /\ LET call == [Idle EXCEPT !.op = "delete", !.id = id]
       IN IF RowCount(rows, id) = 0
          THEN /\ last' = [call EXCEPT !.err = "not found"]
               /\ UNCHANGED rows
          ELSE /\ rows' = {r \in rows : r.id # id}
               /\ last' = call
    /\ UNCHANGED <<seq, assigned>>

summarize_call(start, end, by, category) ==
    /\ last.op = "none"
    /\ \E out \in summarize(rows, start, end, by, category) :
          last' = [Idle EXCEPT !.op = "summarize", !.start = start,
                               !.end = end, !.by = by,
                               !.category = category, !.out = out]
    /\ UNCHANGED <<rows, seq, assigned>>

\* main prints the outcome of the command and the process ends
Return ==
    /\ last.op # "none"
    /\ last' = Idle
    /\ UNCHANGED <<rows, seq, assigned>>

Next ==
    \/ \E amount \in Amounts, date \in Dates,
          category \in AddCategories, note \in AddNotes :
          add_expense(amount, date, category, note)
    \/ \E start \in Starts, end \in Ends,
          category \in FilterCategories, limit \in Limits :
          list_expenses_call(start, end, category, limit)
    \/ \E id \in Ids, amount \in UpdAmounts, date \in UpdDates,
          category \in UpdCategories, note \in UpdNotes :
          update_expense(id, amount, date, category, note)
    \/ \E id \in Ids : delete_expense(id)
    \/ \E start \in Starts, end \in Ends, by \in Bys,
          category \in FilterCategories :
          summarize_call(start, end, by, category)
    \/ Return

Spec == Init /\ [][Next]_vars

\* ================================================================ claims
Called(op) == last.op = "none" /\ last'.op = op

AsSet(s) == {s[i] : i \in 1..Len(s)}

\* the rows a filter triple selects, read off the specification of the
\* filters (a supplied bound or category always counts)
Selected(R, start, end, category) ==
    {r \in R : /\ start # None => r.date >= start[1]
               /\ end # None => r.date <= end[1]
               /\ category # None => r.category = category[1]}

NonIncreasingTotals(out) ==
    \A i, j \in 1..Len(out) : i < j => out[i].total >= out[j].total

\* C1: after a successful add, an unfiltered list holds a row with the
\* amount, date, category and note passed to add (an absent category or
\* note reads back as the empty string), and no other listed row has its id
C1_AddListRoundTrip ==
    (last.op = "add" /\ last.err = "") =>
        LET out == list_expenses(rows, None, None, None, None)
        IN \E i \in 1..Len(out) :
              /\ out[i].id = last.id
              /\ out[i].amount = last.amount[1]
              /\ out[i].date = last.date[1]
              /\ out[i].category =
                    (IF last.category = None THEN "" ELSE last.category[1])
              /\ out[i].note = (IF last.note = None THEN "" ELSE last.note[1])
              /\ \A j \in 1..Len(out) : j # i => out[j].id # out[i].id

C1_Witness ==
    /\ last.op = "add" /\ last.err = ""
    /\ last.category = Some("food") /\ last.note = Some("lunch")
    /\ last.amount = Some(1005)
    /\ Cardinality(rows) = 2

\* C2: a successful update sets exactly the supplied fields of the row with
\* that id (a supplied 0 or "" included), keeps its other fields and its id,
\* and keeps every other row
C2_UpdateFrame ==
    [][(Called("update") /\ last'.err = "") =>
          /\ \E r \in rows : r.id = last'.id
          /\ Cardinality(rows') = Cardinality(rows)
          /\ \A r \in rows :
                IF r.id # last'.id THEN r \in rows'
                ELSE [id |-> r.id,
                      amount |-> IF last'.amount = None THEN r.amount
                                 ELSE last'.amount[1],
                      date |-> IF last'.date = None THEN r.date
                               ELSE last'.date[1],
                      category |-> IF last'.category = None THEN r.category
                                   ELSE last'.category[1],
                      note |-> IF last'.note = None THEN r.note
                               ELSE last'.note[1]] \in rows']_vars

C2_Witness ==
    /\ last.op = "update" /\ last.err = ""
    /\ last.amount = Some(0) /\ last.category = Some("")
    /\ last.date = None /\ last.note = None
    /\ Cardinality(rows) = 2
    /\ \E r \in rows : r.id = last.id /\ r.note = "lunch" /\ r.amount = 0

\* C3 as stated: every update or delete of an id that is not stored fails
\* with not-found and leaves the rows alone
C3_MissingIdAlwaysNotFound ==
    [][((Called("update") \/ Called("delete")) /\ last'.id \notin RowIds(rows))
          => (last'.err = "not found" /\ rows' = rows)]_vars

\* C3 amended: an update of an id that is not stored fails with not-found
\* when it supplies at least one field and with the no-fields condition when
\* it supplies none; a delete of such an id fails with not-found; the rows
\* are unchanged in every case
C3_MissingId ==
    [][((Called("update") \/ Called("delete")) /\ last'.id \notin RowIds(rows))
          => /\ rows' = rows
             /\ last'.err =
                   (IF /\ last'.op = "update"
                       /\ last'.amount = None /\ last'.date = None
                       /\ last'.category = None /\ last'.note = None
                    THEN "No fields provided" ELSE "not found")]_vars

C3_Witness ==
    /\ last.op = "update" /\ last.err = "not found"
    /\ last.amount = Some(-1000)
    /\ rows # {} /\ last.id \notin RowIds(rows)

\* C4: an empty-string category filter selects only the rows whose category
\* is the empty string, in list and in summarize
C4_EmptyCategoryFilter ==
    /\ (last.op = "list" /\ last.category = Some("")) =>
          \A i \in 1..Len(last.out) : last.out[i].category = ""
    /\ (last.op = "summarize" /\ last.by = None /\ last.category = Some(""))
          => last.out[1].total =
                Round2(SumAmount(Selected(rows, last.start, last.end,
                                          Some(""))))

\* C5: a supplied limit N, 0 included, gives at most N rows: the first N of
\* the same list without a limit
C5_LimitCaps ==
    (last.op = "list" /\ last.limit # None) =>
        LET all == list_expenses(rows, last.start, last.end,
                                 last.category, None)
            n == last.limit[1]
        IN /\ Len(last.out) <= n
           /\ last.out = SubSeq(all, 1, IF n < Len(all) THEN n ELSE Len(all))

\* C6: with non-empty filters and no limit, list returns exactly the rows
\* that satisfy every supplied filter, each once, dates non-increasing and
\* ids strictly decreasing within a date
C6_ListFilterOrder ==
    (last.op = "list" /\ last.limit = None /\ last.category # Some("")) =>
        LET out == last.out
            sel == Selected(rows, last.start, last.end, last.category)
        IN /\ AsSet(out) = sel
           /\ Len(out) = Cardinality(sel)
           /\ \A i, j \in 1..Len(out) : i < j =>
                 \/ out[i].date > out[j].date
                 \/ out[i].date = out[j].date /\ out[i].id > out[j].id

C6_Witness ==
    /\ last.op = "list" /\ last.limit = None
    /\ last.category = Some("food") /\ last.start = Some(20250203)
    /\ Len(last.out) = 2
    /\ last.out[1].date = last.out[2].date

\* C7: no stored amount is ever negative; an add, or an update of a stored
\* row, that supplies a negative amount fails on the CHECK and changes no row
C7_AmountNonNegative ==
    /\ [](\A r \in rows : r.amount >= 0)
    /\ [][(/\ Called("add") \/ (Called("update") /\ last'.id \in RowIds(rows))
           /\ last'.amount # None
           /\ last'.amount[1] < 0)
             => (last'.err = "IntegrityError" /\ rows' = rows)]_vars

C7_Witness ==
    /\ last.op = "update" /\ last.err = "IntegrityError"
    /\ last.amount = Some(-1000) /\ last.date = Some(20250203)
    /\ last.category = Some("")
    /\ \E r \in rows : r.id = last.id /\ r.date = 20250120
                                      /\ r.category = "food"

\* C8: stored ids are pairwise distinct, an add assigns an id greater than
\* every id assigned before (deleted ones included), and an update keeps ids
C8_IdsFresh ==
    /\ [](\A r, q \in rows : r.id = q.id => r = q)
    /\ [][/\ (Called("add") /\ last'.err = "") =>
                /\ \A i \in assigned : last'.id > i
                /\ RowIds(rows') = RowIds(rows) \cup {last'.id}
          /\ Called("update") => RowIds(rows') = RowIds(rows)]_vars

C8_Witness ==
    /\ last.op = "add" /\ last.err = ""
    /\ last.id = 2
    /\ RowIds(rows) = {2}

\* C9 as stated: summarize without by returns ("total", s) with s the plain
\* sum of the amounts list returns for the same filters
C9_TotalIsPlainSum ==
    (last.op = "summarize" /\ last.by = None) =>
        last.out = <<Pair("total",
                          SumAmount(AsSet(list_expenses(rows, last.start,
                              last.end, last.category, None))))>>

\* C9 amended: summarize without by returns exactly ("total", s) with s the
\* sum of the amounts list returns for the same filters rounded to two
\* decimals (halves up), 0 when no row matches, and changes no row
C9_TotalIsRoundedSum ==
    [][(Called("summarize") /\ last'.by = None) =>
          LET sum == SumAmount(AsSet(list_expenses(rows, last'.start,
                                         last'.end, last'.category, None)))
              out == last'.out
          IN /\ rows' = rows
             /\ Len(out) = 1
             /\ out[1].grp = "total"
             /\ out[1].total % 10 = 0
             /\ out[1].total - 5 <= sum /\ sum < out[1].total + 5]_vars

C9_Witness ==
    /\ last.op = "summarize" /\ last.by = None
    /\ last.category = Some("food")
    /\ Cardinality(rows) = 2
    /\ last.out[1].total = 1010

====
